---- MODULE Spec2Model ----
(***************************************************************************)
(* Model of src/app.py: the JSON ingestion pipeline (load_and_validate_json,*)
(* process_instance_data), the session state (processed_data,              *)
(* processing_errors, current_page, selected_filter) and the script run    *)
(* main() performs for every user event and every st.rerun().              *)
(*                                                                         *)
(* Python strings are TLA+ strings.  A parsed JSON value is a record with  *)
(* a type tag per field ("absent", "str", "list", "other"), so that the    *)
(* isinstance / `in` / .get(default) tests of the code can be translated.  *)
(***************************************************************************)
EXTENDS Integers, Sequences, FiniteSets, TLC

VARIABLES
    processed_data,     \* st.session_state.processed_data: [present, rows]
    processing_errors,  \* st.session_state.processing_errors: sequence of entries
    current_page,       \* st.session_state.current_page
    selected_filter,    \* st.session_state.selected_filter ({} is NoFilter)
    uploader,           \* value of the st.file_uploader widget: sequence of file objects
    pie_selection,      \* selection state of the chart keyed "app_type_pie"
    bar_selection,      \* selection state of the chart keyed "instance_bar"
    rerun_requested,    \* st.rerun() was called by the last script run
    rerun_count,        \* runs in a row that ended in st.rerun(), modulo RerunCountModulus
    combined_df,        \* main()'s local combined_df in the last run: [ran, df]
    shown,              \* what the last script run rendered
    vbatch,             \* pipeline specification: the batch under test
    vfile,              \* pipeline specification: the file under test
    vstage,             \* pipeline specification: "input", "validated", "extracted", "aggregated"
    vresult             \* pipeline specification: result of the last stage

vars == <<processed_data, processing_errors, current_page, selected_filter,
          uploader, pie_selection, bar_selection, rerun_requested, rerun_count,
          combined_df, shown, vbatch, vfile, vstage, vresult>>

appVars == <<processed_data, processing_errors, current_page, selected_filter,
             uploader, pie_selection, bar_selection, rerun_requested, rerun_count,
             combined_df, shown>>

pipeVars == <<vbatch, vfile, vstage, vresult>>

----------------------------------------------------------------------------
(* Bounds *)

\* longest applications list of the documents of the pipeline specification
MaxApps == 2

\* most files in one upload batch
MaxBatch == 2

\* instances (files) of a dataset the summary is computed for
MaxInstances == 3

\* the runs that end in st.rerun() one after the other are counted modulo this
RerunCountModulus == 2

----------------------------------------------------------------------------
(* Python helpers *)

RECURSIVE SeqRange(_)
SeqRange(s) == IF s = <<>> THEN {} ELSE {Head(s)} \cup SeqRange(Tail(s))

\* str(d) for one decimal digit
Digit(d) ==
    CASE d = 0 -> "0" [] d = 1 -> "1" [] d = 2 -> "2" [] d = 3 -> "3"
      [] d = 4 -> "4" [] d = 5 -> "5" [] d = 6 -> "6" [] d = 7 -> "7"
      [] d = 8 -> "8" [] d = 9 -> "9"

\* str(n) for a non-negative int
RECURSIVE IntToStr(_)
IntToStr(n) == IF n < 10 THEN Digit(n) ELSE IntToStr(n \div 10) \o Digit(n % 10)

\* ', '.join(map(str, xs))
RECURSIVE JoinInts(_)
JoinInts(xs) ==
    IF xs = <<>> THEN ""
    ELSE IF Len(xs) = 1 THEN IntToStr(xs[1])
    ELSE IntToStr(xs[1]) \o ", " \o JoinInts(Tail(xs))

\* the strings of length n made of whitespace only
RECURSIVE WhitespaceOnly(_)
WhitespaceOnly(n) ==
    IF n = 0 THEN {""}
    ELSE {c \o w : c \in {" ", "\t", "\n"}, w \in WhitespaceOnly(n - 1)}

\* `not s.strip()`: s is empty once leading and trailing whitespace is removed
StripIsEmpty(s) == s \in WhitespaceOnly(Len(s))

----------------------------------------------------------------------------
(* JSON documents *)

\* an element of the applications list
Entry(t, has_name, name, has_type, type, has_status, status, ports_t, ports, pids_t, pids) ==
    [t |-> t, has_name |-> has_name, name |-> name,
     has_type |-> has_type, type |-> type,
     has_status |-> has_status, status |-> status,
     ports_t |-> ports_t, ports |-> ports, pids_t |-> pids_t, pids |-> pids]

\* the content of one uploaded file: its bytes ("empty", "garbage" = not JSON,
\* "json"), the type of the parsed top-level value ("object", "list",
\* "number") and, for an object, its fields.  For a top-level list the _t tags
\* say which of the three key strings are elements of the list.
Content(bytes, top, id_t, id_s, name_t, name_s, ver_t, ver_s, apps_t, apps) ==
    [bytes |-> bytes, top |-> top,
     id_t |-> id_t, id_s |-> id_s,
     name_t |-> name_t, name_s |-> name_s,
     ver_t |-> ver_t, ver_s |-> ver_s,
     apps_t |-> apps_t, apps |-> apps]

EmptyBytes == Content("empty", "object", "absent", "", "absent", "", "absent", "", "absent", <<>>)

E_nginx  == Entry("obj", TRUE, "nginx", TRUE, "docker", TRUE, "running", "list", <<80, 443>>, "list", <<7>>)
E_redis  == Entry("obj", TRUE, "redis", TRUE, "docker", TRUE, "stopped", "list", <<>>, "absent", <<>>)
E_db     == Entry("obj", TRUE, "db", TRUE, "vm", FALSE, "", "absent", <<>>, "absent", <<>>)
E_bare   == Entry("obj", TRUE, "cron", FALSE, "", FALSE, "", "absent", <<>>, "absent", <<>>)
E_noname == Entry("obj", FALSE, "", TRUE, "vm", TRUE, "running", "absent", <<>>, "absent", <<>>)
E_nonobj == Entry("other", FALSE, "", FALSE, "", FALSE, "", "absent", <<>>, "absent", <<>>)
E_badports == Entry("obj", TRUE, "proxy", TRUE, "vm", TRUE, "running", "other", <<>>, "absent", <<>>)
E_badpids  == Entry("obj", TRUE, "agent", TRUE, "vm", TRUE, "running", "list", <<22>>, "other", <<>>)

----------------------------------------------------------------------------
(* load_and_validate_json *)

required_fields == <<"instance_id", "instance_name", "applications">>

\* the type tag of a top-level field of the parsed value
FieldT(c, f) ==
    CASE f = "instance_id" -> c.id_t
      [] f = "instance_name" -> c.name_t
      [] f = "applications" -> c.apps_t

\* the ValueError raised: kind, the fields it names, the number it names
Err(kind, fields, n) == [kind |-> kind, fields |-> fields, n |-> n]

NoErr == Err("none", <<>>, 0)

Fail(e) == [ok |-> FALSE, data |-> EmptyBytes, err |-> e]

Ok(c) == [ok |-> TRUE, data |-> c, err |-> NoErr]

\* mutant: the message carries enumerate's index itself
ReportedIndex(i) == i

\* i + 1 of the message f"Application {i+1} ...", i being enumerate's index
ReportedNumber(i) == i + 1

\* the loop `for i, app in enumerate(data['applications'])` from index i on;
\* apps[i + 1] is the element Python calls applications[i]
RECURSIVE CheckApplications(_, _, _)
CheckApplications(c, apps, i) ==
    IF i >= Len(apps) THEN Ok(c)
    ELSE IF apps[i + 1].t # "obj"
         THEN Fail(Err("AppNotObject", <<>>, ReportedNumber(i)))
    ELSE IF ~apps[i + 1].has_name
         THEN Fail(Err("AppMissingName", <<"name">>, ReportedNumber(i)))
    ELSE CheckApplications(c, apps, i + 1)

\* mutant: only the first missing field is reported
FirstMissingField(c) ==
    IF c.id_t = "absent" THEN <<"instance_id">>
    ELSE IF c.name_t = "absent" THEN <<"instance_name">>
    ELSE IF c.apps_t = "absent" THEN <<"applications">>
    ELSE <<>>

\* [field for field in required_fields if field not in data]
MissingFields(c) == SelectSeq(required_fields, LAMBDA f : FieldT(c, f) = "absent")

\* mutant: only the first element of applications is checked
ValidateFirstApplication(c) == CheckApplications(c, SubSeq(c.apps, 1, 1), 0)

\* the applications loop is entered with the first element
ValidateApplications(c) == CheckApplications(c, c.apps, 0)

load_and_validate_json(c) ==
    IF c.bytes = "empty" THEN Fail(Err("FileEmpty", <<>>, 0))
    ELSE IF c.bytes = "garbage" THEN Fail(Err("InvalidJSON", <<>>, 0))
    \* `field not in data` raises TypeError when data is a number
    ELSE IF c.top = "number" THEN Fail(Err("Exception", <<>>, 0))
    ELSE IF MissingFields(c) # <<>>
         THEN Fail(Err("MissingFields", MissingFields(c), 0))
    \* data['instance_id'] raises TypeError when data is a list
    ELSE IF c.top = "list" THEN Fail(Err("Exception", <<>>, 0))
    ELSE IF c.id_t # "str" \/ StripIsEmpty(c.id_s)
         THEN Fail(Err("InvalidType", <<"instance_id">>, 0))
    ELSE IF c.name_t # "str" \/ StripIsEmpty(c.name_s)
         THEN Fail(Err("InvalidType", <<"instance_name">>, 0))
    ELSE IF c.apps_t # "list" THEN Fail(Err("NotList", <<"applications">>, 0))
    ELSE IF Len(c.apps) = 0 THEN Fail(Err("EmptyList", <<"applications">>, 0))
    ELSE ValidateApplications(c)

----------------------------------------------------------------------------
(* process_instance_data *)

\* mutant: no default for a missing script_version
ScriptVersionNoDefault(data) == data.ver_s

\* data.get('script_version', 'Unknown')
ScriptVersion(data) == IF data.ver_t = "absent" THEN "Unknown" ELSE data.ver_s

\* the dict app_info built for one application of a validated document
AppInfo(data, app) ==
    [instance_id |-> data.id_s,
     instance_name |-> data.name_s,
     script_version |-> ScriptVersion(data),
     app_name |-> IF app.has_name THEN app.name ELSE "Unknown",
     app_type |-> IF app.has_type THEN app.type ELSE "Unknown",
     app_status |-> IF app.has_status THEN app.status ELSE "Unknown",
     ports |-> JoinInts(app.ports),
     pids |-> JoinInts(app.pids)]

\* map(str, app.get('ports', [])) raises TypeError when the value is no iterable
AppInfoRaises(app) == app.ports_t = "other" \/ app.pids_t = "other"

\* mutant: an entry whose record cannot be built is left out, the records of
\* the other entries are kept
RECURSIVE BuildAppDataSkipping(_, _)
BuildAppDataSkipping(data, apps) ==
    IF apps = <<>> THEN [raised |-> FALSE, rows |-> <<>>]
    ELSE LET rest == BuildAppDataSkipping(data, Tail(apps))
         IN  IF AppInfoRaises(Head(apps)) THEN rest
             ELSE [raised |-> FALSE, rows |-> <<AppInfo(data, Head(apps))>> \o rest.rows]

\* the loop `for app in applications`: [raised, rows]
RECURSIVE BuildAppData(_, _)
BuildAppData(data, apps) ==
    IF apps = <<>> THEN [raised |-> FALSE, rows |-> <<>>]
    ELSE IF AppInfoRaises(Head(apps)) THEN [raised |-> TRUE, rows |-> <<>>]
    ELSE LET rest == BuildAppData(data, Tail(apps))
         IN  IF rest.raised THEN rest
             ELSE [raised |-> FALSE, rows |-> <<AppInfo(data, Head(apps))>> \o rest.rows]

\* an entry of processing_errors: f"Error processing {name}: {str(e)}"
ErrorEntry(name, e) == [file |-> name, err |-> e]

\* uploaded_file.read(): the bytes from the stream position to the end
ReadFile(f) == IF f.pos = "start" THEN f.content ELSE EmptyBytes

\* the body of the loop for one file: [rows, errors] it adds
ProcessFile(f) ==
    LET v == load_and_validate_json(ReadFile(f))
    IN  IF ~v.ok THEN [rows |-> <<>>, errors |-> <<ErrorEntry(f.name, v.err)>>]
        ELSE IF v.data.apps = <<>>
             THEN [rows |-> <<>>,
                   errors |-> <<ErrorEntry(f.name, Err("EmptyList", <<"applications">>, 0))>>]
        ELSE LET b == BuildAppData(v.data, v.data.apps)
             IN  IF b.raised
                 THEN [rows |-> <<>>,
                       errors |-> <<ErrorEntry(f.name, Err("Exception", <<>>, 0))>>]
                 ELSE [rows |-> b.rows, errors |-> <<>>]

\* mutant: the first failing file ends the loop
RECURSIVE ProcessFilesAbort(_)
ProcessFilesAbort(files) ==
    IF files = <<>> THEN [frames |-> <<>>, errors |-> <<>>]
    ELSE LET one == ProcessFile(Head(files))
             rest == ProcessFilesAbort(Tail(files))
         IN  IF one.errors # <<>> THEN [frames |-> <<>>, errors |-> one.errors]
             ELSE [frames |-> <<one.rows>> \o rest.frames, errors |-> rest.errors]

\* the frames appended to all_dataframes and the entries appended to
\* processing_errors by the loop over uploaded_files
RECURSIVE ProcessFiles(_)
ProcessFiles(files) ==
    IF files = <<>> THEN [frames |-> <<>>, errors |-> <<>>]
    ELSE LET one == ProcessFile(Head(files))
             rest == ProcessFiles(Tail(files))
         IN  [frames |-> (IF one.rows # <<>> THEN <<one.rows>> ELSE <<>>) \o rest.frames,
              errors |-> one.errors \o rest.errors]

\* mutant: the frames are joined last first
RECURSIVE ConcatReversed(_)
ConcatReversed(frames) ==
    IF frames = <<>> THEN <<>> ELSE ConcatReversed(Tail(frames)) \o Head(frames)

\* pd.concat(all_dataframes, ignore_index=True)
RECURSIVE Concat(_)
Concat(frames) == IF frames = <<>> THEN <<>> ELSE Head(frames) \o Concat(Tail(frames))

\* process_instance_data(uploaded_files): the DataFrame returned (<<>> is the
\* empty DataFrame) and the entries appended to processing_errors
process_instance_data(files) ==
    LET r == ProcessFiles(files)
    IN  [df |-> IF r.frames # <<>> THEN Concat(r.frames) ELSE <<>>,
         errors |-> r.errors]

\* the stream positions after every file of the batch was read
AfterRead(files) == [k \in DOMAIN files |-> [files[k] EXCEPT !.pos = "end"]]

Rewind(files) == [k \in DOMAIN files |-> [files[k] EXCEPT !.pos = "start"]]

----------------------------------------------------------------------------
(* Inputs *)

D_a == Content("json", "object", "str", "i1", "str", "hA", "str", "1.0", "list", <<E_nginx, E_redis>>)
D_b == Content("json", "object", "str", "i2", "str", "hB", "absent", "", "list", <<E_db, E_db>>)
D_ports == Content("json", "object", "str", "i3", "str", "hC", "absent", "", "list", <<E_bare, E_badports>>)

\* a file object handed out by st.file_uploader: name, content, stream position
FileObj(name, content) == [name |-> name, content |-> content, pos |-> "start"]

\* the files the user can choose from
FilePool ==
    {FileObj("a.json", D_a), FileObj("b.json", D_b), FileObj("empty.json", EmptyBytes),
     FileObj("ports.json", D_ports)}

\* sequences of n distinct elements of S
RECURSIVE Arrangements(_, _)
Arrangements(S, n) ==
    IF n = 0 THEN {<<>>}
    ELSE {<<x>> \o r : x \in S, r \in Arrangements(S, n - 1)}

Distinct(q) == \A i, j \in DOMAIN q : i # j => q[i].name # q[j].name

\* the batches of one upload action: 1..MaxBatch distinct files, in any order
Batches ==
    {b \in UNION {Arrangements(FilePool, n) : n \in 1..MaxBatch} : Distinct(b)}

EntryPool == {E_nginx, E_db, E_bare, E_noname, E_nonobj, E_badports, E_badpids}

AppLists == UNION {Arrangements(EntryPool, n) : n \in 0..MaxApps}

\* the file contents of the pipeline specification
Contents ==
    {EmptyBytes,
     Content("garbage", "object", "absent", "", "absent", "", "absent", "", "absent", <<>>),
     Content("json", "number", "absent", "", "absent", "", "absent", "", "absent", <<>>)}
    \cup
    {Content("json", "list", it, "", nt, "", "absent", "", at, <<>>) :
        it \in {"absent", "str"}, nt \in {"absent", "str"}, at \in {"absent", "str"}}
    \cup
    {Content("json", "object", i[1], i[2], n[1], n[2], v[1], v[2], "list", a) :
        i \in {<<"absent", "">>, <<"str", "i1">>, <<"str", " \t">>, <<"other", "">>},
        n \in {<<"absent", "">>, <<"str", "hA">>, <<"str", "">>, <<"other", "">>},
        v \in {<<"absent", "">>, <<"str", "1.0">>},
        a \in AppLists}
    \cup
    {Content("json", "object", i[1], i[2], n[1], n[2], "absent", "", at, <<>>) :
        i \in {<<"absent", "">>, <<"str", "i1">>, <<"other", "">>},
        n \in {<<"absent", "">>, <<"str", "hA">>, <<"other", "">>},
        at \in {"absent", "other"}}

----------------------------------------------------------------------------
(* Session state and one script run *)

NoFilter == [type |-> "none", value |-> ""]

NoData == [present |-> FALSE, rows |-> <<>>]

Pages == {"overview", "instance_details", "filtered_view", "data_table"}

\* st.button(b): True only in the run started by a click on b
Pressed(b, trig) == trig = b

\* the session state a run works on, with the values its widgets return
RunState(data, errors, page, filter, files, pie, bar) ==
    [processed_data |-> data, processing_errors |-> errors, current_page |-> page,
     selected_filter |-> filter, files |-> files, pie |-> pie, bar |-> bar,
     rerun |-> FALSE, page_shown |-> "none", warn |-> FALSE, errors_open |-> FALSE,
     batch_failed |-> FALSE, charts |-> FALSE,
     combined_df |-> [ran |-> FALSE, df |-> <<>>]]

\* show_error_notification()
show_error_notification(s, trig) ==
    IF s.processing_errors # <<>>
    THEN IF Pressed("warn", trig)
         THEN IF Pressed("clear_errors", trig)
              THEN [s EXCEPT !.warn = TRUE, !.errors_open = TRUE,
                             !.processing_errors = <<>>, !.rerun = TRUE]
              ELSE [s EXCEPT !.warn = TRUE, !.errors_open = TRUE]
         ELSE [s EXCEPT !.warn = TRUE]
    ELSE s

\* mutant: stores the key of the pressed button instead of the page name
navigate_to_key(s, page_name, filter_data) ==
    [s EXCEPT !.current_page = "nav_" \o page_name,
              !.selected_filter = IF filter_data # NoFilter THEN filter_data ELSE @,
              !.rerun = TRUE]

\* navigate_to_page(page_name, filter_data=None)
navigate_to_page(s, page_name, filter_data) ==
    [s EXCEPT !.current_page = page_name,
              !.selected_filter = IF filter_data # NoFilter THEN filter_data ELSE @,
              !.rerun = TRUE]

\* create_navigation_bar()
create_navigation_bar(s, trig) ==
    IF Pressed("nav_overview", trig) THEN navigate_to_page(s, "overview", NoFilter)
    ELSE IF Pressed("nav_instance_details", trig) THEN navigate_to_page(s, "instance_details", NoFilter)
    ELSE IF Pressed("nav_filtered_view", trig) THEN navigate_to_page(s, "filtered_view", NoFilter)
    ELSE IF Pressed("nav_data_table", trig) THEN navigate_to_page(s, "data_table", NoFilter)
    ELSE s

\* mutant: the entries of earlier batches stay in the log
KeepPreviousErrors(errors) == errors

\* `st.session_state.processing_errors = []` before a batch is processed
ClearPreviousErrors(errors) == <<>>

\* mutant: the batch replaces the dataset whatever it holds
StoresBatchAlways(df) == TRUE

\* `if not combined_df.empty:` decides whether the batch replaces the dataset
StoresBatch(df) == df # <<>>

\* mutant: the batch's records are added to the stored ones
MergedDataset(old, df) == old \o df

\* `st.session_state.processed_data = combined_df`
StoredDataset(old, df) == df

\* the upload section of main(): `if uploaded_files:` ... st.rerun() / st.error;
\* r is what process_instance_data(uploaded_files) returned
upload_section(s, r) ==
    IF s.files # <<>>
    THEN IF StoresBatch(r.df)
         THEN [s EXCEPT !.processing_errors = ClearPreviousErrors(@) \o r.errors,
                        !.files = AfterRead(s.files),
                        !.combined_df = [ran |-> TRUE, df |-> r.df],
                        !.processed_data = [present |-> TRUE,
                                           rows |-> StoredDataset(@.rows, r.df)],
                        !.rerun = TRUE]
         ELSE [s EXCEPT !.processing_errors = ClearPreviousErrors(@) \o r.errors,
                        !.files = AfterRead(s.files),
                        !.combined_df = [ran |-> TRUE, df |-> r.df],
                        !.batch_failed = TRUE]
    ELSE s

\* the values of a column, one per row
Column(df, col) == {df[k][col] : k \in DOMAIN df}

\* number of rows of df whose column col holds v
CountOf(df, col, v) == Cardinality({k \in DOMAIN df : df[k][col] = v})

\* df[col].value_counts(): the values that can come first, those counted most
\* often (the order among equal counts is left to the sort)
MostCounted(df, col) ==
    {v \in Column(df, col) : \A w \in Column(df, col) : CountOf(df, col, w) <= CountOf(df, col, v)}

\* Python's ordering of the instance names that occur in the inputs
NameOrder == <<"hA", "hB", "hC", "hD">>

NameRank(n) == CHOOSE k \in DOMAIN NameOrder : NameOrder[k] = n

\* mutant: among the largest groups, the one that starts first in the frame
busiest_first_encountered(df) ==
    CHOOSE v \in MostCounted(df, "instance_name") :
        \A k \in DOMAIN df :
            df[k].instance_name \in MostCounted(df, "instance_name") =>
                \E j \in 1..k : df[j].instance_name = v

\* df.groupby('instance_name').size().idxmax(): groups are sorted by key and
\* idxmax returns the first of the largest
busiest_instance(df) ==
    CHOOSE v \in MostCounted(df, "instance_name") :
        \A w \in MostCounted(df, "instance_name") : NameRank(v) <= NameRank(w)

\* create_application_overview_page(df); mu is value_counts().index[0]
create_application_overview_page(s, trig, mu) ==
    LET df == s.processed_data.rows
    IN  IF Pressed("view_all_data_btn", trig)
        THEN [s EXCEPT !.current_page = "data_table", !.rerun = TRUE]
        ELSE IF Pressed("instance_analysis_btn", trig)
        THEN [s EXCEPT !.current_page = "instance_details", !.rerun = TRUE]
        ELSE IF mu # "" /\ Pressed("view_most_used_app_btn", trig)
        THEN [s EXCEPT !.current_page = "filtered_view",
                       !.selected_filter = [type |-> "app_type", value |-> mu],
                       !.rerun = TRUE]
        ELSE IF busiest_instance(df) # "" /\ Pressed("busiest_instance_btn", trig)
        THEN [s EXCEPT !.current_page = "filtered_view",
                       !.selected_filter = [type |-> "instance", value |-> busiest_instance(df)],
                       !.rerun = TRUE]
        ELSE [s EXCEPT !.current_page = IF s.pie # "" \/ s.bar # ""
                                        THEN "filtered_view" ELSE @,
                       \* the bar chart's handler runs after the pie chart's
                       !.selected_filter =
                           IF s.bar # "" THEN [type |-> "instance", value |-> s.bar]
                           ELSE IF s.pie # "" THEN [type |-> "app_type", value |-> s.pie]
                           ELSE @,
                       !.page_shown = "overview",
                       !.charts = TRUE]

\* create_filtered_view_page(df): the Clear Filter button
create_filtered_view_page(s, trig) ==
    IF Pressed("clear_filter", trig)
    THEN [s EXCEPT !.selected_filter = NoFilter, !.rerun = TRUE]
    ELSE [s EXCEPT !.page_shown = "filtered_view"]

\* the routing at the end of main()
route(s, trig, mu) ==
    IF s.processed_data.present /\ s.processed_data.rows # <<>>
    THEN IF s.current_page = "overview" THEN create_application_overview_page(s, trig, mu)
         ELSE IF s.current_page = "instance_details" THEN [s EXCEPT !.page_shown = "instance_details"]
         ELSE IF s.current_page = "filtered_view" THEN create_filtered_view_page(s, trig)
         ELSE IF s.current_page = "data_table" THEN [s EXCEPT !.page_shown = "data_table"]
         ELSE create_application_overview_page([s EXCEPT !.current_page = "overview"], trig, mu)
    ELSE [s EXCEPT !.page_shown = "welcome"]

----------------------------------------------------------------------------
(* What the pages compute from the dataset *)

\* mutant: a filter nothing matches shows every record
MatchingOrAll(df, col, v) ==
    IF SelectSeq(df, LAMBDA r : r[col] = v) = <<>> THEN df
    ELSE SelectSeq(df, LAMBDA r : r[col] = v)

\* df[df[col] == v]
Matching(df, col, v) == SelectSeq(df, LAMBDA r : r[col] = v)

\* filtered_df of create_filtered_view_page; every frame the pipeline builds
\* has the column app_status
filtered_df(df, f) ==
    IF f = NoFilter THEN df
    ELSE IF f.type = "app_type" THEN Matching(df, "app_type", f.value)
    ELSE IF f.type = "instance" THEN Matching(df, "instance_name", f.value)
    ELSE IF f.type = "app_status" THEN Matching(df, "app_status", f.value)
    ELSE df

\* the filters the Filtered View is resolved for
FilterPool ==
    {NoFilter} \cup
    {[type |-> t, value |-> v] :
        t \in {"app_type", "instance", "app_status"},
        v \in {"docker", "Docker", "vm", "Unknown", "hA", "hB", "running", "run"}}

\* mutant: counts the records instead of the distinct values
CountAll(df, col) == Len(df)

\* df[col].nunique()
nunique(df, col) == Cardinality(Column(df, col))

\* round(a / b, 1) in tenths: Python rounds the quotient to the nearest tenth
\* and a quotient exactly half-way to the even one (half-way quotients of
\* b < 20 are multiples of 1/4, which floats hold exactly)
Round1(a, b) ==
    LET q == (10 * a) \div b
        r == (10 * a) % b
    IN  IF 2 * r < b THEN q
        ELSE IF 2 * r > b THEN q + 1
        ELSE IF q % 2 = 0 THEN q ELSE q + 1

\* df[col].value_counts().to_dict()
value_counts(df, col) == [v \in Column(df, col) |-> CountOf(df, col, v)]

NoMetrics ==
    [raised |-> FALSE, total_instances |-> 0, total_applications |-> 0,
     unique_app_types |-> 0, avg_apps_per_instance |-> 0, app_types |-> <<>>]

\* create_summary_metrics(df); avg_apps_per_instance in tenths. The frame of
\* a batch without records is pd.DataFrame(), which has no columns:
\* df['ports'] raises KeyError
create_summary_metrics(df) ==
    IF df = <<>> THEN [NoMetrics EXCEPT !.raised = TRUE]
    ELSE [raised |-> FALSE,
          total_instances |-> nunique(df, "instance_id"),
          total_applications |-> Len(df),
          unique_app_types |-> nunique(df, "app_type"),
          avg_apps_per_instance |->
              IF nunique(df, "instance_id") > 0
              THEN Round1(Len(df), nunique(df, "instance_id")) ELSE 0,
          app_types |-> value_counts(df, "app_type")]

\* the metrics row of create_application_overview_page(df), which returns
\* before it when df.empty
OverviewMetrics(df) ==
    IF df = <<>> THEN NoMetrics
    ELSE LET total_instances == nunique(df, "instance_id")
             total_apps == Len(df)
         IN  [raised |-> FALSE,
              total_instances |-> total_instances,
              total_applications |-> total_apps,
              unique_app_types |-> nunique(df, "app_type"),
              avg_apps_per_instance |->
                  IF total_instances > 0 THEN Round1(total_apps, total_instances) ELSE 0,
              app_types |-> value_counts(df, "app_type")]

\* documents with one application each
D_c == Content("json", "object", "str", "i3", "str", "hC", "absent", "", "list", <<E_bare>>)
D_d == Content("json", "object", "str", "i4", "str", "hD", "absent", "", "list", <<E_nginx>>)

\* the batches the summary is computed for: up to MaxInstances files of one
\* or two applications
SummaryBatches ==
    {b \in UNION {Arrangements({FileObj("a.json", D_a), FileObj("b.json", D_b),
                                FileObj("c.json", D_c), FileObj("d.json", D_d)}, n) :
                     n \in 1..MaxInstances} : Distinct(b)}

----------------------------------------------------------------------------
(* The application: one action per user event, each a whole script run *)

\* the file objects st.file_uploader returns to a run for an unchanged
\* selection: the objects of the previous run (streams where read() left
\* them) or new ones
Handed(files, fresh) == IF fresh THEN Rewind(files) ELSE files

\* the candidates for value_counts().index[0] of the stored dataset
MostUsedChoices ==
    IF processed_data.rows = <<>> THEN {""} ELSE MostCounted(processed_data.rows, "app_type")

\* main(), one run of the script with button trig pressed ("none": no
\* button): the sections in the order of the code, st.rerun() ending the run
\* where it is called
Run(trig, files, pie, bar, mu) ==
    \E s0 \in {RunState(processed_data, processing_errors, current_page,
                         selected_filter, files, pie, bar)} :
    \E s1 \in {show_error_notification(s0, trig)} :
    \E s2 \in {IF s1.rerun THEN s1 ELSE create_navigation_bar(s1, trig)} :
    \E r \in {process_instance_data(s2.files)} :
    \E s3 \in {IF s2.rerun THEN s2 ELSE upload_section(s2, r)} :
    \E out \in {IF s3.rerun THEN s3 ELSE route(s3, trig, mu)} :
        /\ processed_data' = out.processed_data
        /\ processing_errors' = out.processing_errors
        /\ current_page' = out.current_page
        /\ selected_filter' = out.selected_filter
        /\ uploader' = out.files
        \* the state of a chart that was not drawn in the run is discarded
        /\ pie_selection' = IF out.charts THEN out.pie ELSE ""
        /\ bar_selection' = IF out.charts THEN out.bar ELSE ""
        /\ rerun_requested' = out.rerun
        /\ rerun_count' = IF out.rerun THEN (rerun_count + 1) % RerunCountModulus ELSE 0
        /\ combined_df' = out.combined_df
        /\ shown' = [page |-> out.page_shown, warn |-> out.warn,
                     errors_open |-> out.errors_open, batch_failed |-> out.batch_failed]
        /\ UNCHANGED pipeVars

\* a run started by the user: accepted once the previous event is handled
UserRun(trig, pie, bar) ==
    /\ ~rerun_requested
    /\ \E fresh \in BOOLEAN, mu \in MostUsedChoices :
          Run(trig, Handed(uploader, fresh), pie, bar, mu)

\* the user puts a batch of files into the uploader
Upload ==
    /\ ~rerun_requested
    /\ \E b \in Batches, mu \in MostUsedChoices :
          Run("none", b, pie_selection, bar_selection, mu)

\* the user removes the files from the uploader
RemoveFiles ==
    /\ ~rerun_requested
    /\ uploader # <<>>
    /\ \E mu \in MostUsedChoices :
          Run("none", <<>>, pie_selection, bar_selection, mu)

ClickWarn ==
    /\ shown.warn
    /\ UserRun("warn", pie_selection, bar_selection)

ClickClearErrors ==
    /\ shown.errors_open
    /\ UserRun("clear_errors", pie_selection, bar_selection)

\* the navigation bar is drawn in every run, its buttons are always there
ClickNav ==
    /\ ~rerun_requested
    /\ \E p \in Pages : UserRun("nav_" \o p, pie_selection, bar_selection)

ClickViewAllData ==
    /\ shown.page = "overview"
    /\ UserRun("view_all_data_btn", pie_selection, bar_selection)

ClickInstanceAnalysis ==
    /\ shown.page = "overview"
    /\ UserRun("instance_analysis_btn", pie_selection, bar_selection)

ClickMostUsed ==
    /\ shown.page = "overview"
    /\ UserRun("view_most_used_app_btn", pie_selection, bar_selection)

ClickBusiest ==
    /\ shown.page = "overview"
    /\ UserRun("busiest_instance_btn", pie_selection, bar_selection)

SelectPie ==
    /\ shown.page = "overview"
    /\ \E v \in Column(processed_data.rows, "app_type") :
          UserRun("none", v, bar_selection)

SelectBar ==
    /\ shown.page = "overview"
    /\ \E v \in Column(processed_data.rows, "instance_name") :
          UserRun("none", pie_selection, v)

ClickClearFilter ==
    /\ shown.page = "filtered_view"
    /\ UserRun("clear_filter", pie_selection, bar_selection)

\* the run st.rerun() asked for
Rerun ==
    /\ rerun_requested
    /\ \E fresh \in BOOLEAN, mu \in MostUsedChoices :
          Run("none", Handed(uploader, fresh), pie_selection, bar_selection, mu)

\* the state after the first run of the script: lines 25-31 and the welcome page
AppInit ==
    /\ processed_data = NoData
    /\ processing_errors = <<>>
    /\ current_page = "overview"
    /\ selected_filter = NoFilter
    /\ uploader = <<>>
    /\ pie_selection = ""
    /\ bar_selection = ""
    /\ rerun_requested = FALSE
    /\ rerun_count = 0
    /\ combined_df = [ran |-> FALSE, df |-> <<>>]
    /\ shown = [page |-> "welcome", warn |-> FALSE, errors_open |-> FALSE,
                batch_failed |-> FALSE]

PipeIdle ==
    [v |-> Fail(NoErr), rows |-> <<>>, errors |-> <<>>, df |-> <<>>,
     filter |-> NoFilter, filtered |-> <<>>,
     metrics |-> NoMetrics, overview |-> NoMetrics, busiest |-> ""]

Init ==
    /\ AppInit
    /\ vbatch = <<>>
    /\ vfile = EmptyBytes
    /\ vstage = "idle"
    /\ vresult = PipeIdle

Next ==
    \/ Upload
    \/ RemoveFiles
    \/ ClickWarn
    \/ ClickClearErrors
    \/ ClickNav
    \/ ClickViewAllData
    \/ ClickInstanceAnalysis
    \/ ClickMostUsed
    \/ ClickBusiest
    \/ SelectPie
    \/ SelectBar
    \/ ClickClearFilter
    \/ Rerun

Spec == Init /\ [][Next]_vars

\* the runtime starts the run st.rerun() asked for
FairSpec == Spec /\ WF_vars(Rerun)

----------------------------------------------------------------------------
(* The pipeline: validate, extract and aggregate applied to bounded inputs *)

PipeInit ==
    /\ AppInit
    /\ vstage = "input"
    /\ vresult = PipeIdle
    /\ \/ vfile \in Contents /\ vbatch = <<>>
       \/ vfile = EmptyBytes /\ vbatch \in Batches \cup SummaryBatches

\* validate(raw_bytes)
Validate ==
    /\ vstage = "input"
    /\ vbatch = <<>>
    /\ vresult' = [vresult EXCEPT !.v = load_and_validate_json(vfile)]
    /\ vstage' = "validated"
    /\ UNCHANGED <<vbatch, vfile>>
    /\ UNCHANGED appVars

\* the loop body of process_instance_data for the file
Extract ==
    /\ vstage = "validated"
    /\ LET r == ProcessFile(FileObj("f.json", vfile))
       IN  vresult' = [vresult EXCEPT !.rows = r.rows, !.errors = r.errors]
    /\ vstage' = "extracted"
    /\ UNCHANGED <<vbatch, vfile>>
    /\ UNCHANGED appVars

\* process_instance_data(batch)
Aggregate ==
    /\ vstage = "input"
    /\ vbatch # <<>>
    /\ LET r == process_instance_data(vbatch)
       IN  vresult' = [vresult EXCEPT !.df = r.df, !.errors = r.errors]
    /\ vstage' = "aggregated"
    /\ UNCHANGED <<vbatch, vfile>>
    /\ UNCHANGED appVars

\* the Filtered View of the aggregated dataset under a filter
Resolve ==
    /\ vstage = "aggregated"
    /\ vresult.df # <<>>
    /\ \E f \in FilterPool :
          vresult' = [vresult EXCEPT !.filter = f, !.filtered = filtered_df(vresult.df, f)]
    /\ vstage' = "filtered"
    /\ UNCHANGED <<vbatch, vfile>>
    /\ UNCHANGED appVars

\* the summary of the aggregated dataset and the metrics row of the Overview
Summarize ==
    /\ vstage = "aggregated"
    /\ vresult' = [vresult EXCEPT !.metrics = create_summary_metrics(vresult.df),
                                  !.overview = OverviewMetrics(vresult.df),
                                  !.busiest = IF vresult.df = <<>> THEN ""
                                              ELSE busiest_instance(vresult.df)]
    /\ vstage' = "summarized"
    /\ UNCHANGED <<vbatch, vfile>>
    /\ UNCHANGED appVars

PipeNext == Validate \/ Extract \/ Aggregate \/ Resolve \/ Summarize

PipeSpec == PipeInit /\ [][PipeNext]_vars

----------------------------------------------------------------------------
(* Properties *)

\* the records of the files of a batch, file after file
RECURSIVE RowsOfBatch(_)
RowsOfBatch(files) ==
    IF files = <<>> THEN <<>> ELSE ProcessFile(Head(files)).rows \o RowsOfBatch(Tail(files))

\* C1: the stored dataset changes only in a run that processed the uploader's
\* batch and got records from it, and then it becomes exactly those records;
\* a run whose batch gives no record keeps the dataset (or its absence) and
\* shows the batch error.
C1_DatasetReplacedOnlyByNonEmptyBatch ==
    [][/\ processed_data' # processed_data =>
            /\ combined_df'.ran
            /\ combined_df'.df # <<>>
            /\ processed_data' = [present |-> TRUE, rows |-> combined_df'.df]
            /\ combined_df'.df = RowsOfBatch(Rewind(uploader'))
       /\ (combined_df'.ran /\ combined_df'.df = <<>>) =>
            /\ processed_data' = processed_data
            /\ shown'.batch_failed]_vars

\* a batch without records was processed while a dataset was stored
C1_Witness ==
    /\ combined_df.ran
    /\ combined_df.df = <<>>
    /\ shown.batch_failed
    /\ processed_data.present
    /\ \E k \in DOMAIN uploader : uploader[k].name = "empty.json"

\* validation or the building of a record raises for the file
FileFails(f) ==
    LET v == load_and_validate_json(f.content)
    IN  ~v.ok \/ \E k \in DOMAIN v.data.apps : AppInfoRaises(v.data.apps[k])

\* one record per element of applications, in the order of the list
ExpectedRows(f) ==
    IF FileFails(f) THEN <<>>
    ELSE [k \in DOMAIN f.content.apps |-> AppInfo(f.content, f.content.apps[k])]

\* the file names of the entries of an error log, in order
ErrFiles(errors) == [k \in DOMAIN errors |-> errors[k].file]

\* the names of the failing files of a batch, in upload order
RECURSIVE FailingNames(_)
FailingNames(files) ==
    IF files = <<>> THEN <<>>
    ELSE (IF FileFails(Head(files)) THEN <<Head(files).name>> ELSE <<>>)
         \o FailingNames(Tail(files))

\* C2: whatever the batch and wherever its failing files stand, the log gets
\* exactly one entry per failing file, naming it, the files after a failing
\* one are still processed, and every record of every file that does not fail
\* is in the returned dataset.
C2_OneErrorPerFailingFileRestKept ==
    vstage = "aggregated" =>
        /\ ErrFiles(vresult.errors) = FailingNames(vbatch)
        /\ \A k \in DOMAIN vbatch :
              ~FileFails(vbatch[k]) =>
                  \A j \in DOMAIN ExpectedRows(vbatch[k]) :
                      ExpectedRows(vbatch[k])[j] \in SeqRange(vresult.df)

\* a failing file stood first and the file after it gave its records
C2_Witness ==
    /\ vstage = "aggregated"
    /\ Len(vbatch) = 2
    /\ FileFails(vbatch[1])
    /\ ~FileFails(vbatch[2])
    /\ Len(vresult.errors) = 1
    /\ vresult.errors[1].file = vbatch[1].name
    /\ vresult.df # <<>>

\* the expected records of a batch, file after file
RECURSIVE ExpectedDataset(_)
ExpectedDataset(files) ==
    IF files = <<>> THEN <<>>
    ELSE ExpectedRows(Head(files)) \o ExpectedDataset(Tail(files))

\* C6: the returned dataset is the per-file record sequences put one after
\* the other in upload order, each in the order of its applications list,
\* with nothing reordered, merged or left out.
C6_DatasetIsOrderedConcatenation ==
    vstage = "aggregated" => vresult.df = ExpectedDataset(vbatch)

\* two files with records were aggregated, the second file's duplicates kept
C6_Witness ==
    /\ vstage = "aggregated"
    /\ Len(vbatch) = 2
    /\ vbatch[1].name = "b.json"
    /\ vbatch[2].name = "a.json"
    /\ Len(vresult.df) = 4
    /\ vresult.df[1] = vresult.df[2]
    /\ vresult.df[1].instance_name = "hB"
    /\ vresult.df[3].app_name = "nginx"
    /\ vresult.df[4].app_name = "redis"

\* p is a prefix of q
IsPrefix(p, q) == Len(p) <= Len(q) /\ \A k \in DOMAIN p : q[k] = p[k]

\* the uploader holds a batch with a failing and a non-failing file
MixedBatch(files) ==
    /\ \E k \in DOMAIN files : FileFails(Rewind(files)[k])
    /\ \E k \in DOMAIN files : ~FileFails(Rewind(files)[k])

\* C3 (as claimed): once a batch with failing and valid files is handled to
\* completion, reruns included, and the uploader still returns it, the dataset
\* is the valid files' records and the log has exactly one entry per failing
\* file, naming it, and nothing else.
C3_MixedBatchSettled ==
    (~rerun_requested /\ MixedBatch(uploader)) =>
        /\ processed_data = [present |-> TRUE, rows |-> ExpectedDataset(Rewind(uploader))]
        /\ ErrFiles(processing_errors) = FailingNames(Rewind(uploader))

\* the run started by an upload processed a batch that gave no record: the
\* step is Upload's for the batch the uploader holds afterwards
FailedUpload ==
    /\ combined_df'.ran
    /\ combined_df'.df = <<>>
    /\ ~rerun_requested
    /\ Rewind(uploader') \in Batches
    /\ \E mu \in MostUsedChoices :
          Run("none", Rewind(uploader'), pie_selection, bar_selection, mu)

C5_ClearErrorsEmptiesLog ==
    [][ClickClearErrors =>
            /\ processing_errors' = <<>>
            /\ processed_data' = processed_data
            /\ current_page' = current_page
            /\ selected_filter' = selected_filter]_vars

\* the entry is an object that has the key name
ValidEntry(e) == e.t = "obj" /\ e.has_name

\* the top-level requirements on a parsed object, before its entries are looked at
ValidTopLevel(c) ==
    /\ c.bytes = "json"
    /\ c.top = "object"
    /\ c.id_t = "str" /\ ~StripIsEmpty(c.id_s)
    /\ c.name_t = "str" /\ ~StripIsEmpty(c.name_s)
    /\ c.apps_t = "list"
    /\ Len(c.apps) > 0

\* what the claim calls an acceptable byte buffer
Acceptable(c) == ValidTopLevel(c) /\ \A k \in DOMAIN c.apps : ValidEntry(c.apps[k])

\* the document has an entry whose ports or pids is present and no sequence
HasUnreadablePorts(c) == \E k \in DOMAIN c.apps : AppInfoRaises(c.apps[k])

\* every record carries the identity of the document
CarriesIdentity(c, rows) ==
    \A k \in DOMAIN rows :
        /\ rows[k].instance_id = c.id_s
        /\ rows[k].instance_name = c.name_s
        /\ rows[k].script_version = (IF c.ver_t = "absent" THEN "Unknown" ELSE c.ver_s)

C8_AcceptsExactlyWellFormed ==
    /\ vstage \in {"validated", "extracted"} =>
          /\ vresult.v.ok <=> Acceptable(vfile)
          /\ ~vresult.v.ok => vresult.v.err.kind # "none"
          /\ vresult.v.ok => vresult.v.data = vfile
    /\ (vstage = "extracted" /\ ~Acceptable(vfile)) =>
          vresult.rows = <<>> /\ Len(vresult.errors) = 1

\* a document was rejected only because of a later entry of its list, and
\* gave no record
C8_Witness ==
    /\ vstage = "extracted"
    /\ ValidTopLevel(vfile)
    /\ Len(vfile.apps) = 2
    /\ ValidEntry(vfile.apps[1])
    /\ ~ValidEntry(vfile.apps[2])
    /\ ~vresult.v.ok
    /\ vresult.rows = <<>>

\* the parsed value is a JSON object that lacks a required field
ObjectMissingField(c) ==
    /\ c.bytes = "json"
    /\ c.top = "object"
    /\ "absent" \in {c.id_t, c.name_t, c.apps_t}

\* the required fields the object lacks, in the fixed order
AbsentInOrder(c) ==
    (IF c.id_t = "absent" THEN <<"instance_id">> ELSE <<>>)
    \o (IF c.name_t = "absent" THEN <<"instance_name">> ELSE <<>>)
    \o (IF c.apps_t = "absent" THEN <<"applications">> ELSE <<>>)

\* C9 (as claimed): for an object that lacks required fields the error names
\* the first missing field, and only that one, before any type check.
C9_NamesFirstMissingFieldOnly ==
    (vstage = "validated" /\ ObjectMissingField(vfile)) =>
        /\ ~vresult.v.ok
        /\ vresult.v.err.kind = "MissingFields"
        /\ vresult.v.err.fields = <<AbsentInOrder(vfile)[1]>>

\* C9 (amended): for an object that lacks required fields the one error names
\* every missing field, in the order instance_id, instance_name,
\* applications, before any type check.
C9_NamesAllMissingFieldsInOrder ==
    (vstage = "validated" /\ ObjectMissingField(vfile)) =>
        /\ ~vresult.v.ok
        /\ vresult.v.err.kind = "MissingFields"
        /\ vresult.v.err.fields = AbsentInOrder(vfile)

\* two fields were missing and the present one had the wrong type
C9_Witness ==
    /\ vstage = "validated"
    /\ vfile.top = "object"
    /\ vfile.id_t = "absent"
    /\ vfile.name_t = "other"
    /\ vfile.apps_t = "absent"
    /\ vresult.v.err.fields = <<"instance_id", "applications">>

\* Python's index of the first entry that is no object or lacks name
\* (the list index starts at 0)
FirstInvalidIndex(apps) ==
    (CHOOSE k \in DOMAIN apps :
        ~ValidEntry(apps[k]) /\ \A j \in 1..(k - 1) : ValidEntry(apps[j])) - 1

HasInvalidEntry(c) == ValidTopLevel(c) /\ \E k \in DOMAIN c.apps : ~ValidEntry(c.apps[k])

\* the kind of error the first invalid entry calls for
EntryErrorKind(apps) ==
    IF apps[FirstInvalidIndex(apps) + 1].t # "obj" THEN "AppNotObject" ELSE "AppMissingName"

\* C10 (as claimed): validation fails on the lowest-index invalid entry, with
\* the error kind that entry calls for, and reports that entry's index in the
\* applications sequence.
C10_ReportsIndexOfFirstInvalidEntry ==
    (vstage = "validated" /\ HasInvalidEntry(vfile)) =>
        /\ ~vresult.v.ok
        /\ vresult.v.err.kind = EntryErrorKind(vfile.apps)
        /\ vresult.v.err.n = FirstInvalidIndex(vfile.apps)

\* C10 (amended): the number reported is that entry's index plus one, its
\* position counted from 1.
C10_ReportsPositionOfFirstInvalidEntry ==
    (vstage = "validated" /\ HasInvalidEntry(vfile)) =>
        /\ ~vresult.v.ok
        /\ vresult.v.err.kind = EntryErrorKind(vfile.apps)
        /\ vresult.v.err.n = FirstInvalidIndex(vfile.apps) + 1

\* the second entry lacked name after a valid first one
C10_Witness ==
    /\ vstage = "validated"
    /\ HasInvalidEntry(vfile)
    /\ Len(vfile.apps) = 2
    /\ ValidEntry(vfile.apps[1])
    /\ vfile.apps[2].t = "obj"
    /\ vresult.v.err.kind = "AppMissingName"
    /\ vresult.v.err.n = 2

----------------------------------------------------------------------------
(* Selections on the Overview *)

\* the filter a selection of value v in column col asks for
FilterOf(col, v) ==
    [type |-> IF col = "instance_name" THEN "instance" ELSE col, value |-> v]

\* C11 (as claimed): every app-type selection on the Overview (pie segment or
\* most-used quick action) ends with current_page = filtered_view and an
\* app_type filter on a value of the dataset, and every instance selection
\* (bar or busiest-instance quick action) with current_page = filtered_view
\* and an instance filter.
C11_SelectionSetsViewAndFilter ==
    [][/\ (ClickMostUsed \/ SelectPie) =>
            /\ current_page' = "filtered_view"
            /\ \E v \in Column(processed_data'.rows, "app_type") :
                  selected_filter' = FilterOf("app_type", v)
       /\ (ClickBusiest \/ SelectBar) =>
            /\ current_page' = "filtered_view"
            /\ \E v \in Column(processed_data'.rows, "instance_name") :
                  selected_filter' = FilterOf("instance_name", v)]_vars

----------------------------------------------------------------------------
(* Navigation *)

\* filter, dataset and error log are what they were
KeepsFilterDataLog ==
    /\ selected_filter' = selected_filter
    /\ processed_data' = processed_data
    /\ processing_errors' = processing_errors

\* C12 (as claimed): a navigation without filter payload (one of the four
\* navigation-bar buttons, View All Data, Instance Analysis) sets
\* current_page to the view asked for and leaves the filter, the dataset and
\* the error log as they were.
C12_NavigationSetsViewOnly ==
    [][/\ \A p \in Pages :
            UserRun("nav_" \o p, pie_selection, bar_selection) =>
                current_page' = p /\ KeepsFilterDataLog
       /\ ClickViewAllData => current_page' = "data_table" /\ KeepsFilterDataLog
       /\ ClickInstanceAnalysis =>
            current_page' = "instance_details" /\ KeepsFilterDataLog]_vars

\* C13 (as claimed): the Clear Filter action leaves no filter and keeps
\* current_page and the dataset.
C13_ClearFilterEmptiesFilter ==
    [][ClickClearFilter =>
            /\ selected_filter' = NoFilter
            /\ current_page' = current_page
            /\ processed_data' = processed_data]_vars

----------------------------------------------------------------------------
(* Upload and the navigation state *)

\* C14: a run that stores a batch makes the dataset exactly the records of
\* that batch, whatever was stored before, and leaves current_page and
\* selected_filter as they were.
C14_SuccessfulUploadReplacesDatasetOnly ==
    [][(combined_df'.ran /\ combined_df'.df # <<>>) =>
            /\ processed_data' =
                  [present |-> TRUE, rows |-> RowsOfBatch(Rewind(uploader'))]
            /\ current_page' = current_page
            /\ selected_filter' = selected_filter]_vars

\* b.json was stored in the Filtered View while the filter names an instance
\* of the dataset it replaced
C14_Witness ==
    /\ combined_df.ran
    /\ combined_df.df # <<>>
    /\ rerun_requested
    /\ current_page = "filtered_view"
    /\ selected_filter = FilterOf("instance_name", "hA")
    /\ Column(processed_data.rows, "instance_name") = {"hB"}

----------------------------------------------------------------------------
(* Filter resolution *)

\* the column a filter of type t compares
FilterColumn(t) == IF t = "instance" THEN "instance_name" ELSE t

\* the positions of df whose record has value v in column col
MatchingPositions(df, col, v) == {k \in DOMAIN df : df[k][col] = v}

\* the i-th smallest element of a set of positions
NthPosition(M, i) == CHOOSE k \in M : Cardinality({j \in M : j <= k}) = i

\* C15: under a filter {field, value} the Filtered View holds exactly the
\* records whose app_type, instance_name or app_status equals the value, in
\* dataset order; without a filter it holds the whole dataset; a value no
\* record has gives no rows.
C15_FilteredViewIsExactMatchInOrder ==
    vstage = "filtered" =>
        LET f == vresult.filter
            M == MatchingPositions(vresult.df, FilterColumn(f.type), f.value)
        IN  IF f = NoFilter THEN vresult.filtered = vresult.df
            ELSE /\ Len(vresult.filtered) = Cardinality(M)
                 /\ \A i \in DOMAIN vresult.filtered :
                       vresult.filtered[i] = vresult.df[NthPosition(M, i)]
                 /\ M = {} => vresult.filtered = <<>>

\* the docker records of [b.json, a.json] were picked out from behind the
\* vm records
C15_Witness ==
    /\ vstage = "filtered"
    /\ vresult.filter = [type |-> "app_type", value |-> "docker"]
    /\ Len(vresult.df) = 4
    /\ vresult.df[1].app_type = "vm"
    /\ Len(vresult.filtered) = 2
    /\ vresult.filtered[1].app_name = "nginx"
    /\ vresult.filtered[2].app_name = "redis"

----------------------------------------------------------------------------
(* Status selection *)

\* a step of the application that ends in the Filtered View with a status
\* filter on a value of the dataset
StatusSelectionStep ==
    /\ Next
    /\ current_page' = "filtered_view"
    /\ \E v \in Column(processed_data.rows, "app_status") :
          selected_filter' = FilterOf("app_status", v)

\* C16 (as claimed): whenever the Overview of a dataset is on screen, a status
\* selection is possible: some step leads to current_page = filtered_view
\* with selected_filter = {app_status, value}.
C16_StatusSelectionAvailable ==
    (shown.page = "overview" /\ ~rerun_requested) => ENABLED StatusSelectionStep

----------------------------------------------------------------------------
(* Summary *)

\* the positions of df where the value of column col occurs for the first time
FirstOccurrences(df, col) ==
    {k \in DOMAIN df : \A j \in 1..(k - 1) : df[j][col] # df[k][col]}

\* the sum of f over the elements of S
RECURSIVE SumOver(_, _)
SumOver(f, S) ==
    IF S = {} THEN 0
    ELSE LET x == CHOOSE y \in S : TRUE IN f[x] + SumOver(f, S \ {x})

\* C17: for a dataset with records the summary gives the number of distinct
\* instance_id values, the number of records, the number of distinct app_type
\* values and, per app_type, its number of records (summing to the number of
\* records); the Overview's metrics row shows the same figures.
C17_SummaryCountsDataset ==
    (vstage = "summarized" /\ vresult.df # <<>>) =>
        LET df == vresult.df
            m  == vresult.metrics
        IN  /\ ~m.raised
            /\ m.total_instances = Cardinality(FirstOccurrences(df, "instance_id"))
            /\ m.total_applications = Len(df)
            /\ m.unique_app_types = Cardinality(FirstOccurrences(df, "app_type"))
            /\ DOMAIN m.app_types = {df[k].app_type : k \in DOMAIN df}
            /\ \A t \in DOMAIN m.app_types :
                  m.app_types[t] = Cardinality({k \in DOMAIN df : df[k].app_type = t})
            /\ SumOver(m.app_types, DOMAIN m.app_types) = m.total_applications
            /\ vresult.overview.total_instances = m.total_instances
            /\ vresult.overview.total_applications = m.total_applications
            /\ vresult.overview.unique_app_types = m.unique_app_types

\* Scenario A: one instance, two docker applications
C17_Witness ==
    /\ vstage = "summarized"
    /\ Len(vbatch) = 1
    /\ vbatch[1].name = "a.json"
    /\ vresult.metrics.total_instances = 1
    /\ vresult.metrics.total_applications = 2
    /\ vresult.metrics.unique_app_types = 1
    /\ vresult.metrics.app_types["docker"] = 2
    /\ vresult.overview.total_applications = 2

\* t tenths is a / b rounded to one decimal place
IsRoundedToTenth(t, a, b) ==
    /\ 2 * (10 * a - t * b) <= b
    /\ 2 * (t * b - 10 * a) <= b

\* C18 (as claimed): the summary's avg_apps_per_instance is total_applications
\* / total_instances rounded to one decimal place, and the summary of a
\* dataset without records is returned, with avg_apps_per_instance = 0.
C18_AverageRoundedZeroWithoutRecords ==
    vstage = "summarized" =>
        LET m == vresult.metrics
        IN  /\ ~m.raised
            /\ m.total_applications = Len(vresult.df)
            /\ IF m.total_instances = 0 THEN m.avg_apps_per_instance = 0
               ELSE IsRoundedToTenth(m.avg_apps_per_instance,
                                     m.total_applications, m.total_instances)

----------------------------------------------------------------------------
(* Busiest instance *)

\* the number of records of instance name n
RecordsOf(df, n) == Cardinality({k \in DOMAIN df : df[k].instance_name = n})

\* the instance names with the greatest number of records
Busiest(df) ==
    {df[k].instance_name : k \in
        {k \in DOMAIN df :
            \A j \in DOMAIN df :
                RecordsOf(df, df[j].instance_name) <= RecordsOf(df, df[k].instance_name)}}

\* the position of the first record of instance name n
FirstRecord(df, n) ==
    CHOOSE k \in DOMAIN df :
        df[k].instance_name = n /\ \A j \in 1..(k - 1) : df[j].instance_name # n

\* C19 (as claimed): the busiest instance has the greatest number of records
\* and, among the names that tie for it, the earliest first record.
C19_BusiestIsFirstEncountered ==
    (vstage = "summarized" /\ vresult.df # <<>>) =>
        /\ vresult.busiest \in Busiest(vresult.df)
        /\ \A n \in Busiest(vresult.df) :
              FirstRecord(vresult.df, vresult.busiest) <= FirstRecord(vresult.df, n)

\* C19 (amended): the busiest instance has the greatest number of records
\* and, among the names that tie for it, it is the first in the order of the
\* strings.
C19_BusiestIsFirstInNameOrder ==
    (vstage = "summarized" /\ vresult.df # <<>>) =>
        /\ vresult.busiest \in Busiest(vresult.df)
        /\ \A n \in Busiest(vresult.df) : NameRank(vresult.busiest) <= NameRank(n)

\* hB and hA tie with two records each, hB's come first, hA is the result
C19_Witness ==
    /\ vstage = "summarized"
    /\ Len(vbatch) = 2
    /\ vbatch[1].name = "b.json"
    /\ vbatch[2].name = "a.json"
    /\ Busiest(vresult.df) = {"hA", "hB"}
    /\ FirstRecord(vresult.df, "hB") < FirstRecord(vresult.df, "hA")
    /\ vresult.busiest = "hA"

----------------------------------------------------------------------------
(* Navigation state *)

\* C20: the session starts on the overview without filter and with an empty
\* error log, and current_page is always one of overview, instance_details,
\* filtered_view, data_table.
C20_StartsOnOverviewStaysOnKnownPage ==
    /\ current_page = "overview" /\ selected_filter = NoFilter /\ processing_errors = <<>>
    /\ [](current_page \in Pages)

\* a page other than the start page, reached with a dataset, a filter and a
\* non-empty error log
C20_Witness ==
    /\ current_page = "instance_details"
    /\ shown.page = "instance_details"
    /\ processed_data.present
    /\ selected_filter # NoFilter
    /\ processing_errors # <<>>

----------------------------------------------------------------------------
(* All or nothing per file *)

\* the document passes validation, records can be built for its first
\* entries and a later entry has ports or pids that is no sequence
FailsPartWay(c) ==
    /\ Acceptable(c)
    /\ ~AppInfoRaises(c.apps[1])
    /\ \E k \in DOMAIN c.apps : AppInfoRaises(c.apps[k])

\* the records of df that carry the instance_id of document c
RecordsFrom(df, c) == SelectSeq(df, LAMBDA r : r.instance_id = c.id_s)

\* the batch without its k-th file
WithoutFile(files, k) == SubSeq(files, 1, k - 1) \o SubSeq(files, k + 1, Len(files))

\* C21: a file gives all of its application records or none. When a record
\* of a validated file cannot be built part-way through, none of the file's
\* records is in the dataset, the log has exactly one entry for the file, and
\* the records and entries of the other files are what they are without it.
C21_FileContributesAllOrNothing ==
    /\ vstage = "extracted" =>
          /\ Len(vresult.rows) \in {0, Len(vfile.apps)}
          /\ FailsPartWay(vfile) => vresult.rows = <<>> /\ Len(vresult.errors) = 1
    /\ vstage = "aggregated" =>
          \A k \in DOMAIN vbatch :
              LET c == vbatch[k].content
              IN  /\ Len(RecordsFrom(vresult.df, c)) \in {0, Len(c.apps)}
                  /\ FailsPartWay(c) =>
                        /\ RecordsFrom(vresult.df, c) = <<>>
                        /\ Cardinality({j \in DOMAIN vresult.errors :
                                           vresult.errors[j].file = vbatch[k].name}) = 1
                        /\ vresult.df = ExpectedDataset(WithoutFile(vbatch, k))
                        /\ Len(vresult.errors) =
                              1 + Len(FailingNames(WithoutFile(vbatch, k)))

\* ports.json, whose second entry has unreadable ports, stood before a.json:
\* only a.json's records are in the dataset, and the log has one entry
C21_Witness ==
    /\ vstage = "aggregated"
    /\ Len(vbatch) = 2
    /\ vbatch[1].name = "ports.json"
    /\ FailsPartWay(vbatch[1].content)
    /\ vbatch[2].name = "a.json"
    /\ Len(vresult.df) = 2
    /\ vresult.df[1].instance_id = "i1"
    /\ Len(vresult.errors) = 1
    /\ vresult.errors[1].file = "ports.json"

----------------------------------------------------------------------------
(* Termination of the handling of an upload *)

\* the last run stored a batch and asked for a rerun
StoredAndRerun == combined_df.ran /\ combined_df.df # <<>> /\ rerun_requested

\* C22 (as claimed): once a batch is stored and a rerun requested, a run that
\* requests no further rerun eventually completes.
C22_UploadHandlingTerminates == StoredAndRerun ~> ~rerun_requested

----------------------------------------------------------------------------
(* The page a run renders and the page current_page names *)

\* the last run finished without st.rerun() and a dataset is loaded
SettledWithData ==
    ~rerun_requested /\ processed_data.present /\ processed_data.rows # <<>>

\* C23 (as claimed): when a run finishes without requesting a rerun and a
\* dataset is loaded, the page the run rendered is the one current_page names.
C23_RenderedPageIsCurrentPage == SettledWithData => shown.page = current_page

====
